---------------------------- MODULE Spec2Model ----------------------------
(***************************************************************************)
(* kover (src/src/kover.c): a scene of buildings and antennas is read from *)
(* stdin line by line, validated, and one query is answered about it.      *)
(*                                                                         *)
(* C strings are TLA+ strings; Ch(s, i) is the character s[i-1] of the C   *)
(* code (TLA+ indexes from 1).  C ints are 32 bits wide: the arithmetic of *)
(* the code is done by AddInt/SubInt, which report overflow, and a signed  *)
(* overflow (undefined behaviour) is a choice among the outcomes a build   *)
(* can produce.                                                            *)
(***************************************************************************)
EXTENDS Integers, Sequences, FiniteSets, TLC

VARIABLES
    pc,          \* where main is: "main", "begin", "loop", "ok", "exit", "undefined"
    subcommand,  \* argv[1], or "" when argc != 2
    scene,       \* Scene: [buildings, antennas], num_* are the lengths
    line_num,    \* read_scene's line counter
    stdin_rest,  \* input known to be in stdin and not read yet
    hist,        \* one record per fgets of read_scene: what it read and did
    stderr,      \* the diagnostics written so far
    stdout,      \* the query output written so far
    ret,         \* main's return value, -1 while running
    arg,         \* input of the pure function under check (lexical/overlap specs)
    res          \* its result

vars == <<pc, subcommand, scene, line_num, stdin_rest, hist, stderr, stdout,
          ret, arg, res>>

---------------------------------------------------------------------------
(* Bounds of the model *)

MaxLines == 4      \* physical input lines the environment supplies
MaxTokLen == 3     \* length of the strings given to the lexical validators
MaxCoord == 1      \* |x|, |y| of the small rectangles given to buildings_overlap
MaxHalf == 2       \* w, h of those rectangles

---------------------------------------------------------------------------
(* Program constants *)

MAX_LINE_LENGTH == 51
MAX_BUILDINGS == 100
MAX_ANTENNAS == 100
SCAN_WIDTH == 10
SUCCESS == 0
ERROR == 1
INT_MAX == 2147483647
INT_MIN == -2147483647 - 1

---------------------------------------------------------------------------
(* Characters: <ctype.h> in the "C" locale *)

Ch(s, i) == SubSeq(s, i, i)

Upper == {"A","B","C","D","E","F","G","H","I","J","K","L","M",
          "N","O","P","Q","R","S","T","U","V","W","X","Y","Z"}
Lower == {"a","b","c","d","e","f","g","h","i","j","k","l","m",
          "n","o","p","q","r","s","t","u","v","w","x","y","z"}
Digit == {"0","1","2","3","4","5","6","7","8","9"}

isalpha(c) == c \in Upper \cup Lower
isdigit(c) == c \in Digit
isalnum(c) == isalpha(c) \/ isdigit(c)
isspace(c) == c \in {" ", "\t", "\n", "\r", "\f"}

is_blank(c) == c = " " \/ c = "\t"

---------------------------------------------------------------------------
(* Lexical validators *)

FirstCharAlsoDigit(c, first) == isalnum(c) \/ c = "_"

is_valid_id_char(c, first) ==
    IF first THEN isalpha(c) \/ c = "_"
    ELSE isalnum(c) \/ c = "_"

is_valid_id(id) ==
    IF Len(id) = 0 THEN FALSE
    ELSE IF ~is_valid_id_char(Ch(id, 1), TRUE) THEN FALSE
    ELSE \A i \in 2..Len(id) : is_valid_id_char(Ch(id, i), FALSE)

is_valid_integer(str) ==
    IF Len(str) = 0 THEN FALSE
    ELSE IF Ch(str, 1) = "0" /\ Len(str) > 1 THEN FALSE
    ELSE LET start == IF Ch(str, 1) = "-" THEN 1 ELSE 0
         IN  IF start = 1 /\ Len(str) = 1 THEN FALSE
             ELSE \A i \in (start + 1)..Len(str) : isdigit(Ch(str, i))

is_valid_positive_integer(str) ==
    IF Len(str) = 0 \/ Ch(str, 1) = "-" \/ Ch(str, 1) = "0" THEN FALSE
    ELSE \A i \in 1..Len(str) : isdigit(Ch(str, i))

RECURSIVE TrimRight(_)
TrimRight(s) ==
    IF Len(s) > 0 /\ is_blank(Ch(s, Len(s))) THEN TrimRight(SubSeq(s, 1, Len(s) - 1))
    ELSE s

BeginSceneTrimmed(line) == TrimRight(line) = "begin scene"

is_begin_scene(line) == line = "begin scene"

EndSceneTrimmed(line) == TrimRight(line) = "end scene"

is_end_scene(line) == line = "end scene"

---------------------------------------------------------------------------
(* 32-bit int arithmetic.  AddInt/SubInt are the results of an int + and - *)
(* on a build where signed overflow wraps; the Exact operators give the    *)
(* mathematical value as <<q, r>> = 4*q + r, which a build that widens the *)
(* operands produces, and in which the claims about geometry are stated.   *)

AddOverflows(a, b) ==
    (b > 0 /\ a > INT_MAX - b) \/ (b < 0 /\ a < INT_MIN - b)

SubOverflows(a, b) ==
    (b < 0 /\ a > INT_MAX + b) \/ (b > 0 /\ a < INT_MIN + b)

AddInt(a, b) ==
    IF b > 0 /\ a > INT_MAX - b THEN ((a - INT_MAX) + (b - INT_MAX)) - 2
    ELSE IF b < 0 /\ a < INT_MIN - b THEN ((a + INT_MAX) + (b + INT_MAX)) + 2
    ELSE a + b

SubInt(a, b) ==
    IF b > 0 /\ a < INT_MIN + b THEN ((a + INT_MAX) + 1) + ((INT_MAX - b) + 1)
    ELSE IF b < 0 /\ a > INT_MAX + b THEN ((a - INT_MAX) - 1) + ((0 - (b + 1)) - INT_MAX)
    ELSE a - b

ExactAdd(a, b) ==
    LET s == (a % 4) + (b % 4)
    IN  <<(a \div 4) + (b \div 4) + (s \div 4), s % 4>>

ExactSub(a, b) ==
    LET s == (a % 4) - (b % 4)
    IN  <<(a \div 4) - (b \div 4) + (s \div 4), s % 4>>

ExactLeq(p, q) == p[1] < q[1] \/ (p[1] = q[1] /\ p[2] <= q[2])

ExactLt(p, q) == p[1] < q[1] \/ (p[1] = q[1] /\ p[2] < q[2])

---------------------------------------------------------------------------
(* atoi on a token the validators accepted: an optional '-' and digits.    *)
(* The magnitude is accumulated in two 16-bit limbs, so that ten digits    *)
(* stay within the 32-bit integers of TLC.                                 *)

DigitVal(c) == CHOOSE d \in 0..9 : Ch("0123456789", d + 1) = c

RECURSIVE Magnitude(_, _, _)
Magnitude(str, i, m) ==
    IF i > Len(str) \/ ~isdigit(Ch(str, i)) THEN m
    ELSE LET lo10 == m.lo * 10 + DigitVal(Ch(str, i))
             hi10 == m.hi * 10 + (lo10 \div 65536)
         IN  Magnitude(str, i + 1,
                       [hi |-> hi10 % 65536, lo |-> lo10 % 65536,
                        over |-> m.over \/ hi10 >= 65536])

\* The outcomes of atoi(str): the value when it fits an int; otherwise the
\* behaviour is undefined and a build yields the value truncated to 32 bits
\* ((int) strtol with a 64-bit long) or the saturated one (32-bit long).
atoi(str) ==
    LET neg == Len(str) > 0 /\ Ch(str, 1) = "-"
        m == Magnitude(str, IF neg THEN 2 ELSE 1, [hi |-> 0, lo |-> 0, over |-> FALSE])
        low == IF m.hi >= 32768 THEN (m.hi - 65536) * 65536 + m.lo
               ELSE m.hi * 65536 + m.lo
        trunc == IF ~neg THEN low ELSE IF low = INT_MIN THEN INT_MIN ELSE 0 - low
        fits == ~m.over /\ (m.hi < 32768 \/ (neg /\ m.hi = 32768 /\ m.lo = 0))
    IN  IF fits THEN {trunc}
        ELSE {trunc, IF neg THEN INT_MIN ELSE INT_MAX}

---------------------------------------------------------------------------
(* Scene and building validation *)

\* buildings_overlap where int + and - wrap
overlap_wrapping(b1, b2) ==
    ~(AddInt(b1.x, b1.w) <= SubInt(b2.x, b2.w) \/
      SubInt(b1.x, b1.w) >= AddInt(b2.x, b2.w) \/
      AddInt(b1.y, b1.h) <= SubInt(b2.y, b2.h) \/
      SubInt(b1.y, b1.h) >= AddInt(b2.y, b2.h))

\* buildings_overlap where the sums are formed without overflow
overlap_widened(b1, b2) ==
    ~(ExactLeq(ExactAdd(b1.x, b1.w), ExactSub(b2.x, b2.w)) \/
      ExactLeq(ExactAdd(b2.x, b2.w), ExactSub(b1.x, b1.w)) \/
      ExactLeq(ExactAdd(b1.y, b1.h), ExactSub(b2.y, b2.h)) \/
      ExactLeq(ExactAdd(b2.y, b2.h), ExactSub(b1.y, b1.h)))

overlap_overflows(b1, b2) ==
    \/ AddOverflows(b1.x, b1.w) \/ SubOverflows(b2.x, b2.w)
    \/ SubOverflows(b1.x, b1.w) \/ AddOverflows(b2.x, b2.w)
    \/ AddOverflows(b1.y, b1.h) \/ SubOverflows(b2.y, b2.h)
    \/ SubOverflows(b1.y, b1.h) \/ AddOverflows(b2.y, b2.h)

\* buildings_overlap(b1, b2) on a build that wraps (wide = FALSE) or widens
\* (wide = TRUE) an int sum that overflows; the two agree when none does.
buildings_overlap(b1, b2, wide) ==
    IF wide THEN overlap_widened(b1, b2) ELSE overlap_wrapping(b1, b2)

is_duplicate_building_id(sc, id) ==
    \E i \in 1..Len(sc.buildings) : sc.buildings[i].id = id

DuplicateAcrossKinds(sc, id) ==
    \/ \E i \in 1..Len(sc.antennas) : sc.antennas[i].id = id
    \/ \E i \in 1..Len(sc.buildings) : sc.buildings[i].id = id

is_duplicate_antenna_id(sc, id) ==
    \E i \in 1..Len(sc.antennas) : sc.antennas[i].id = id

has_same_position(a1, a2) == a1.x = a2.x /\ a1.y = a2.y

\* The pairs <<i, j>>, i < j, of antennas at one position; the loops return
\* the first in the order of i, then j.
CollidingPairs(sc) ==
    {p \in (1..Len(sc.antennas)) \X (1..Len(sc.antennas)) :
        p[1] < p[2] /\ has_same_position(sc.antennas[p[1]], sc.antennas[p[2]])}

CheckPositionsLaterFirst(sc) ==
    IF CollidingPairs(sc) = {} THEN <<>>
    ELSE LET p == CHOOSE p \in CollidingPairs(sc) :
                     \A q \in CollidingPairs(sc) :
                         p[1] < q[1] \/ (p[1] = q[1] /\ p[2] <= q[2])
         IN  <<sc.antennas[p[2]].id, sc.antennas[p[1]].id>>

check_antenna_positions(sc) ==
    IF CollidingPairs(sc) = {} THEN <<>>
    ELSE LET p == CHOOSE p \in CollidingPairs(sc) :
                     \A q \in CollidingPairs(sc) :
                         p[1] < q[1] \/ (p[1] = q[1] /\ p[2] <= q[2])
         IN  <<sc.antennas[p[1]].id, sc.antennas[p[2]].id>>

---------------------------------------------------------------------------
(* sscanf: a blank in the format skips any white space (isspace), "%10s"   *)
(* skips white space and stores at most 10 characters that are not white   *)
(* space, a literal must match.  The result modelled is the sequence of    *)
(* strings stored; sscanf's return value is its length.                    *)

RECURSIVE SkipSpace(_, _)
SkipSpace(s, i) ==
    IF i <= Len(s) /\ isspace(Ch(s, i)) THEN SkipSpace(s, i + 1) ELSE i

RECURSIVE TokenEnd(_, _, _)
TokenEnd(s, i, n) ==
    IF n = 0 \/ i > Len(s) \/ isspace(Ch(s, i)) THEN i
    ELSE TokenEnd(s, i + 1, n - 1)

RECURSIVE ScanStrings(_, _, _)
ScanStrings(s, i, n) ==
    LET j == SkipSpace(s, i)
    IN  IF n = 0 \/ j > Len(s) THEN <<>>
        ELSE LET e == TokenEnd(s, j, SCAN_WIDTH)
             IN  <<SubSeq(s, j, e - 1)>> \o ScanStrings(s, e, n - 1)

\* sscanf(line, " <keyword> %10s ... %10s ", ...) with n conversions
ScanAfterKeyword(line, keyword, n) ==
    LET j == SkipSpace(line, 1)
    IN  IF SubSeq(line, j, j + Len(keyword) - 1) = keyword
        THEN ScanStrings(line, j + Len(keyword), n)
        ELSE <<>>

---------------------------------------------------------------------------
(* Parsing.  A parse result is [ok, err, values]: the diagnostic written   *)
(* on failure, or the structs atoi can produce on success.                 *)

\* A diagnostic: the message, the token or the identifiers it quotes and
\* the line number it gives (0 when the message has none).
LineError(kind, line_no) ==
    [kind |-> kind, tok |-> "", line |-> line_no, id1 |-> "", id2 |-> ""]

TokenError(kind, tok, line_no) ==
    [kind |-> kind, tok |-> tok, line |-> line_no, id1 |-> "", id2 |-> ""]

SceneError(kind, id1, id2) ==
    [kind |-> kind, tok |-> "", line |-> 0, id1 |-> id1, id2 |-> id2]

parse_building_line(line, line_no) ==
    LET a == ScanAfterKeyword(line, "building", 5)
    IN  IF Len(a) # 5
        THEN [ok |-> FALSE, values |-> {},
              err |-> LineError("building line has wrong number of arguments", line_no)]
        ELSE IF ~is_valid_id(a[1])
        THEN [ok |-> FALSE, values |-> {},
              err |-> TokenError("invalid identifier", a[1], line_no)]
        ELSE IF ~is_valid_integer(a[2])
        THEN [ok |-> FALSE, values |-> {},
              err |-> TokenError("invalid integer", a[2], line_no)]
        ELSE IF ~is_valid_integer(a[3])
        THEN [ok |-> FALSE, values |-> {},
              err |-> TokenError("invalid integer", a[3], line_no)]
        ELSE IF ~is_valid_positive_integer(a[4])
        THEN [ok |-> FALSE, values |-> {},
              err |-> TokenError("invalid positive integer", a[4], line_no)]
        ELSE IF ~is_valid_positive_integer(a[5])
        THEN [ok |-> FALSE, values |-> {},
              err |-> TokenError("invalid positive integer", a[5], line_no)]
        ELSE [ok |-> TRUE, err |-> LineError("", line_no),
              values |-> {[id |-> a[1], x |-> x, y |-> y, w |-> w, h |-> h] :
                            x \in atoi(a[2]), y \in atoi(a[3]),
                            w \in atoi(a[4]), h \in atoi(a[5])}]

parse_antenna_line(line, line_no) ==
    LET a == ScanAfterKeyword(line, "antenna", 4)
    IN  IF Len(a) # 4
        THEN [ok |-> FALSE, values |-> {},
              err |-> LineError("antenna line has wrong number of arguments", line_no)]
        ELSE IF ~is_valid_id(a[1])
        THEN [ok |-> FALSE, values |-> {},
              err |-> TokenError("invalid identifier", a[1], line_no)]
        ELSE IF ~is_valid_integer(a[2])
        THEN [ok |-> FALSE, values |-> {},
              err |-> TokenError("invalid integer", a[2], line_no)]
        ELSE IF ~is_valid_integer(a[3])
        THEN [ok |-> FALSE, values |-> {},
              err |-> TokenError("invalid integer", a[3], line_no)]
        ELSE IF ~is_valid_positive_integer(a[4])
        THEN [ok |-> FALSE, values |-> {},
              err |-> TokenError("invalid positive integer", a[4], line_no)]
        ELSE [ok |-> TRUE, err |-> LineError("", line_no),
              values |-> {[id |-> a[1], x |-> x, y |-> y, r |-> r] :
                            x \in atoi(a[2]), y \in atoi(a[3]), r \in atoi(a[4])}]

---------------------------------------------------------------------------
(* Scene processing.  Each operator gives the set of outcomes              *)
(* [ok, scene, err] of one call: the value returned, the scene afterwards  *)
(* and the diagnostics written.                                            *)

init_scene == [buildings |-> <<>>, antennas |-> <<>>]

Failed(sc, e) == [ok |-> FALSE, scene |-> sc, err |-> <<e>>]

Succeeded(sc) == [ok |-> TRUE, scene |-> sc, err |-> <<>>]

\* The loop of process_building over the stored buildings: the index of the
\* first one that overlaps b, 0 when there is none.
FirstOverlap(sc, b, wide) ==
    LET hits == {i \in 1..Len(sc.buildings) :
                    buildings_overlap(sc.buildings[i], b, wide)}
    IN  IF hits = {} THEN 0 ELSE CHOOSE i \in hits : \A j \in hits : i <= j

AddBuildingNoDuplicateCheck(sc, b) ==
    {IF i = 0 THEN Succeeded([sc EXCEPT !.buildings = Append(@, b)])
     ELSE Failed(sc, SceneError("buildings are overlapping", sc.buildings[i].id, b.id)) :
        i \in {FirstOverlap(sc, b, wide) : wide \in BOOLEAN}}

AddBuildingKeepsRefused(sc, b) ==
    IF is_duplicate_building_id(sc, b.id)
    THEN {Failed(sc, SceneError("building identifier is non unique", b.id, ""))}
    ELSE {IF i = 0 THEN Succeeded([sc EXCEPT !.buildings = Append(@, b)])
          ELSE Failed([sc EXCEPT !.buildings = Append(@, b)],
                      SceneError("buildings are overlapping", sc.buildings[i].id, b.id)) :
             i \in {FirstOverlap(sc, b, wide) : wide \in BOOLEAN}}

\* process_building after a successful parse that produced b
add_building(sc, b) ==
    IF is_duplicate_building_id(sc, b.id)
    THEN {Failed(sc, SceneError("building identifier is non unique", b.id, ""))}
    ELSE {IF i = 0 THEN Succeeded([sc EXCEPT !.buildings = Append(@, b)])
          ELSE Failed(sc, SceneError("buildings are overlapping", sc.buildings[i].id, b.id)) :
             i \in {FirstOverlap(sc, b, wide) : wide \in BOOLEAN}}

process_building(sc, line, line_no) ==
    LET p == parse_building_line(line, line_no)
    IN  IF ~p.ok THEN {Failed(sc, p.err)}
        ELSE UNION {add_building(sc, b) : b \in p.values}

AddAntennaNoPositionCheck(sc, a) ==
    IF is_duplicate_antenna_id(sc, a.id)
    THEN {Failed(sc, SceneError("antenna identifier is non unique", a.id, ""))}
    ELSE {Succeeded([sc EXCEPT !.antennas = Append(@, a)])}

\* process_antenna after a successful parse that produced a
add_antenna(sc, a) ==
    IF is_duplicate_antenna_id(sc, a.id)
    THEN {Failed(sc, SceneError("antenna identifier is non unique", a.id, ""))}
    ELSE LET added == [sc EXCEPT !.antennas = Append(@, a)]
             ids == check_antenna_positions(added)
         IN  IF ids # <<>>
             THEN {Failed(added, SceneError("antennas have the same position", ids[1], ids[2]))}
             ELSE {Succeeded(added)}

process_antenna(sc, line, line_no) ==
    LET p == parse_antenna_line(line, line_no)
    IN  IF ~p.ok THEN {Failed(sc, p.err)}
        ELSE UNION {add_antenna(sc, a) : a \in p.values}

process_line(sc, line, line_no) ==
    LET type == ScanStrings(line, 1, 1)
    IN  IF Len(type) # 1
        THEN {Failed(sc, LineError("unrecognized line", line_no))}
        ELSE IF type[1] = "building" THEN process_building(sc, line, line_no)
        ELSE IF type[1] = "antenna" THEN process_antenna(sc, line, line_no)
        ELSE {Failed(sc, LineError("unrecognized line", line_no))}

---------------------------------------------------------------------------
(* The input.  stdin is a sequence of physical lines, each ended by a      *)
(* newline; the environment supplies them one at a time from InputLines.   *)

Ids == {"a", "b"}

BuildingLines ==
    {"building " \o id \o " " \o x \o " 0 " \o w \o " 1" :
        id \in Ids, x \in {"0", "2", "2147483646"}, w \in {"1", "2"}}

AntennaLines ==
    {"antenna " \o id \o " 5 " \o y \o " 3" : id \in Ids, y \in {"0", "5"}}

MarkerLines ==
    {"begin scene", "end scene", "begin scene ", " begin scene", "end scene "}

\* A building line of MAX_LINE_LENGTH - 1 = 50 characters: 18 and 32 blanks
FullLengthLine == "building d 9 5 1 1" \o "                                "

OtherLines ==
    {"", "hello",
     "building", "building a 0 0 1", "building b 0 0 1 1 extra",
     "antenna a 5 5", "antenna b 5 5 3 extra",
     "building 1a 0 0 1 1", "building a 0x 0 1 1", "building a 0 00 1 1",
     "building a -0 0 1 1", "building a 0 0 0 1", "building a 0 0 1 -1",
     "antenna a# 5 5 3", "antenna a - 5 3", "antenna a 5 5 0",
     " \tbuilding  c\t9 9 1 1 ",
     "building abcdefghij1 9 1 1",
     "building a 0 0 4294967296 1",
     "building c 1 0 1 1",
     "building 1a 0x 0 1 1", "antenna a 5 05 -3",
     "building 1abcdefghij 0 0 1 1",
     "building abcdefghijk 0 0 1 1",
     "building a\f0 0 1 1", "antenna 1a\r5 5 3",
     FullLengthLine}

\* What the stream can hold after the `end scene` line: nothing, or one more
\* line
TrailingInput == {"", "hello\n"}

InputLines == BuildingLines \cup AntennaLines \cup MarkerLines \cup OtherLines

\* What the next fgets can find in stdin: the rest of the line it stopped
\* inside, or a new physical line, or nothing ("": end of file).
Inputs ==
    IF stdin_rest # "" THEN {stdin_rest}
    ELSE {""} \cup (IF Len(hist) < MaxLines
                    THEN {l \o "\n" : l \in InputLines} ELSE {})

\* The 1-based position in the stream of the physical line the next fgets
\* reads from
NextPos ==
    IF hist = <<>> THEN 1
    ELSE IF stdin_rest # "" THEN hist[Len(hist)].pos
    ELSE hist[Len(hist)].pos + 1

RECURSIVE strcspn(_, _, _)
strcspn(s, c, i) ==
    IF i > Len(s) \/ Ch(s, i) = c THEN i - 1 ELSE strcspn(s, c, i + 1)

\* fgets(line, MAX_LINE_LENGTH, stdin) on the unread input buf: the
\* characters stored, at most MAX_LINE_LENGTH - 1 and none after a newline.
fgets(buf) ==
    LET nl == strcspn(buf, "\n", 1) + 1
        n == IF nl <= MAX_LINE_LENGTH - 1 THEN nl ELSE MAX_LINE_LENGTH - 1
        k == IF n <= Len(buf) THEN n ELSE Len(buf)
    IN  [line |-> SubSeq(buf, 1, k), rest |-> SubSeq(buf, k + 1, Len(buf))]

\* line[strcspn(line, "\n")] = 0
StripNewline(s) == SubSeq(s, 1, strcspn(s, "\n", 1))

---------------------------------------------------------------------------
(* Output: printf("%d") and strcmp *)

RECURSIVE DecimalDigits(_)
DecimalDigits(n) ==
    IF n < 10 THEN Ch("0123456789", n + 1)
    ELSE DecimalDigits(n \div 10) \o Ch("0123456789", (n % 10) + 1)

\* printf("%d", n)
FormatInt(n) ==
    IF n >= 0 THEN DecimalDigits(n)
    ELSE IF n = INT_MIN THEN "-2147483648"
    ELSE "-" \o DecimalDigits(0 - n)

\* The characters in the order of their codes (the grave accent left out)
Ascii ==
    "\t\n\f\r !\"#$%&'()*+,-./0123456789:;<=>?@ABCDEFGHIJKLMNOPQRSTUVWXYZ[\\]^_abcdefghijklmnopqrstuvwxyz{|}~"

Ord(c) == CHOOSE i \in 1..Len(Ascii) : Ch(Ascii, i) = c

\* strcmp(a, b) < 0, comparing from character i on
RECURSIVE StrLess(_, _, _)
StrLess(a, b, i) ==
    IF i > Len(b) THEN FALSE
    ELSE IF i > Len(a) THEN TRUE
    ELSE IF Ch(a, i) = Ch(b, i) THEN StrLess(a, b, i + 1)
    ELSE Ord(Ch(a, i)) < Ord(Ch(b, i))

CompareIdsReversed(a, b) == IF a = b THEN 0 ELSE IF StrLess(a, b, 1) THEN 1 ELSE -1

compare_ids(a, b) == IF a = b THEN 0 ELSE IF StrLess(a, b, 1) THEN -1 ELSE 1

\* qsort(ids, n, sizeof(char*), compare_ids)
RECURSIVE qsort(_)
qsort(ids) ==
    IF Len(ids) <= 1 THEN ids
    ELSE LET m == CHOOSE i \in 1..Len(ids) :
                     /\ \A j \in 1..Len(ids) : compare_ids(ids[i], ids[j]) <= 0
                     /\ \A j \in 1..(i - 1) : ids[j] # ids[i]
         IN  <<ids[m]>> \o qsort(SubSeq(ids, 1, m - 1) \o SubSeq(ids, m + 1, Len(ids)))

---------------------------------------------------------------------------
(* Scene computation and queries.  The bounding box is folded over the     *)
(* buildings, then the antennas; `wide` says whether the comparisons see   *)
(* the wrapped or the mathematical value of a sum that overflows.          *)

DiffLess(a, b, m, wide) ==
    IF wide THEN ExactLt(ExactSub(a, b), ExactAdd(m, 0)) ELSE SubInt(a, b) < m

SumGreater(a, b, m, wide) ==
    IF wide THEN ExactLt(ExactAdd(m, 0), ExactAdd(a, b)) ELSE AddInt(a, b) > m

Extend(box, x, y, w, h, wide) ==
    [min_x |-> IF DiffLess(x, w, box.min_x, wide) THEN SubInt(x, w) ELSE box.min_x,
     max_x |-> IF SumGreater(x, w, box.max_x, wide) THEN AddInt(x, w) ELSE box.max_x,
     min_y |-> IF DiffLess(y, h, box.min_y, wide) THEN SubInt(y, h) ELSE box.min_y,
     max_y |-> IF SumGreater(y, h, box.max_y, wide) THEN AddInt(y, h) ELSE box.max_y]

RECURSIVE BoxOfBuildings(_, _, _, _)
BoxOfBuildings(sc, i, box, wide) ==
    IF i > Len(sc.buildings) THEN box
    ELSE LET b == sc.buildings[i]
         IN  BoxOfBuildings(sc, i + 1, Extend(box, b.x, b.y, b.w, b.h, wide), wide)

RECURSIVE BoxOfAntennas(_, _, _, _)
BoxOfAntennas(sc, i, box, wide) ==
    IF i > Len(sc.antennas) THEN box
    ELSE LET a == sc.antennas[i]
         IN  BoxOfAntennas(sc, i + 1, Extend(box, a.x, a.y, a.r, a.r, wide), wide)

\* The outcomes of compute_bounding_box
compute_bounding_box(sc) ==
    LET start == [min_x |-> INT_MAX, max_x |-> INT_MIN,
                  min_y |-> INT_MAX, max_y |-> INT_MIN]
    IN  {BoxOfAntennas(sc, 1, BoxOfBuildings(sc, 1, start, wide), wide) :
            wide \in BOOLEAN}

print_bounding_box(sc) ==
    IF Len(sc.buildings) = 0 /\ Len(sc.antennas) = 0
    THEN {<<"undefined (empty scene)">>}
    ELSE {<<"bounding box [" \o FormatInt(box.min_x) \o ", " \o FormatInt(box.max_x)
            \o "] x [" \o FormatInt(box.min_y) \o ", " \o FormatInt(box.max_y) \o "]">> :
            box \in compute_bounding_box(sc)}

SummaryOfBuildingsOnly(sc) ==
    <<"A scene with " \o FormatInt(Len(sc.buildings)) \o " buildings">>

print_summary(sc) ==
    LET nb == Len(sc.buildings)
        na == Len(sc.antennas)
    IN  IF nb = 0 /\ na = 0 THEN <<"An empty scene">>
        ELSE <<"A scene with "
               \o (IF nb > 0
                   THEN FormatInt(nb) \o " building" \o (IF nb > 1 THEN "s" ELSE "")
                        \o (IF na > 0 THEN " and " ELSE "")
                   ELSE "")
               \o (IF na > 0
                   THEN FormatInt(na) \o " antenna" \o (IF na > 1 THEN "s" ELSE "")
                   ELSE "")>>

print_building(b) ==
    "  building " \o b.id \o " at " \o FormatInt(b.x) \o " " \o FormatInt(b.y)
    \o " with dimensions " \o FormatInt(b.w) \o " " \o FormatInt(b.h)

print_antenna(a) ==
    "  antenna " \o a.id \o " at " \o FormatInt(a.x) \o " " \o FormatInt(a.y)
    \o " with range " \o FormatInt(a.r)

\* The first stored item whose id is `id` (the inner loops of print_description)
FirstWithId(items, id) ==
    items[CHOOSE j \in 1..Len(items) :
              items[j].id = id /\ \A k \in 1..(j - 1) : items[k].id # id]

print_description(sc) ==
    LET building_ids == qsort([i \in 1..Len(sc.buildings) |-> sc.buildings[i].id])
        antenna_ids == qsort([i \in 1..Len(sc.antennas) |-> sc.antennas[i].id])
    IN  print_summary(sc)
        \o [i \in 1..Len(building_ids) |->
               print_building(FirstWithId(sc.buildings, building_ids[i]))]
        \o [i \in 1..Len(antenna_ids) |->
               print_antenna(FirstWithId(sc.antennas, antenna_ids[i]))]

---------------------------------------------------------------------------
(* The program: main, and read_scene one fgets at a time *)

VALID_SUBCOMMANDS == {"bounding-box", "describe", "help", "summarize"}

is_valid_subcommand(sub) == sub \in VALID_SUBCOMMANDS

\* argv[1] of the runs explored; "" stands for argc # 2
Subcommands == {"", "help", "frobnicate", "bounding-box", "describe", "summarize"}

NoResult == [fn |-> "", val |-> FALSE, rev |-> FALSE]

Init ==
    /\ pc = "main"
    /\ subcommand \in Subcommands
    /\ scene = init_scene
    /\ line_num = 0
    /\ stdin_rest = ""
    /\ hist = <<>>
    /\ stderr = <<>>
    /\ stdout = <<>>
    /\ ret = -1
    /\ arg = ""
    /\ res = NoResult

\* main up to the call of read_scene
Main ==
    /\ pc = "main"
    /\ IF subcommand = ""
       THEN /\ stderr' = Append(stderr, LineError("subcommand is mandatory", 0))
            /\ stdout' = stdout /\ ret' = ERROR /\ pc' = "exit"
       ELSE IF subcommand = "help"
       THEN /\ stdout' = Append(stdout, "Usage: kover SUBCOMMAND")
            /\ stderr' = stderr /\ ret' = SUCCESS /\ pc' = "exit"
       ELSE IF ~is_valid_subcommand(subcommand)
       THEN /\ stderr' = Append(stderr, TokenError("subcommand is not recognized",
                                                   subcommand, 0))
            /\ stdout' = stdout /\ ret' = ERROR /\ pc' = "exit"
       ELSE /\ stderr' = stderr /\ stdout' = stdout /\ ret' = ret /\ pc' = "begin"
    /\ scene' = init_scene
    /\ UNCHANGED <<subcommand, line_num, stdin_rest, hist, arg, res>>

\* main's "if (!read_scene(&scene)) return ERROR": where main goes after a
\* line that read_scene accepted (ok) or that made it return false
QueryDespiteFailure(ok) == IF ok THEN "loop" ELSE "ok"

ContinueAfterFailure(ok) == "loop"

AfterLine(ok) == IF ok THEN "loop" ELSE "exit"

\* read_scene up to its loop: the first fgets and the start marker.  When
\* read_scene returns false, main returns ERROR.
ReadBegin ==
    /\ pc = "begin"
    /\ \E buf \in Inputs :
         LET f == fgets(buf)
             line == StripNewline(f.line)
         IN  /\ stdin_rest' = f.rest
             /\ IF buf = ""
                THEN /\ hist' = Append(hist, [line |-> "", kind |-> "eof", ok |-> FALSE, pos |-> NextPos])
                     /\ stderr' = stderr /\ line_num' = line_num
                     /\ ret' = ERROR /\ pc' = "exit"
                ELSE IF ~is_begin_scene(line)
                THEN /\ hist' = Append(hist, [line |-> line, kind |-> "first", ok |-> FALSE, pos |-> NextPos])
                     /\ stderr' = Append(stderr,
                            LineError("first line must be exactly 'begin scene'", 0))
                     /\ line_num' = line_num
                     /\ ret' = ERROR /\ pc' = "exit"
                ELSE /\ hist' = Append(hist, [line |-> line, kind |-> "first", ok |-> TRUE, pos |-> NextPos])
                     /\ stderr' = stderr /\ line_num' = 1
                     /\ ret' = ret /\ pc' = "loop"
    /\ UNCHANGED <<subcommand, scene, stdout, arg, res>>

\* The write scene->buildings[num_buildings++] or scene->antennas[num_antennas++]
\* that produced sc was outside its array: the behaviour is undefined from
\* there on (the bytes after the array, the counters among them, are
\* overwritten; a build may go on with any count or stop with a fault), which
\* pc = "undefined" stands for.
Overrun(sc) ==
    Len(sc.buildings) > MAX_BUILDINGS \/ Len(sc.antennas) > MAX_ANTENNAS

\* One iteration of read_scene's loop, or its exit at the end of the input
ReadLoop ==
    /\ pc = "loop"
    /\ \E buf \in Inputs :
         LET f == fgets(buf)
             line == StripNewline(f.line)
         IN  /\ IF is_end_scene(line) /\ buf # ""
                THEN \E tail \in TrailingInput : stdin_rest' = f.rest \o tail
                ELSE stdin_rest' = f.rest
             /\ IF buf = ""
                THEN /\ hist' = Append(hist, [line |-> "", kind |-> "eof", ok |-> FALSE, pos |-> NextPos])
                     /\ stderr' = Append(stderr,
                            LineError("last line must be exactly 'end scene'", 0))
                     /\ line_num' = line_num /\ scene' = scene
                     /\ ret' = ERROR /\ pc' = "exit"
                ELSE IF is_end_scene(line)
                THEN /\ hist' = Append(hist, [line |-> line, kind |-> "end", ok |-> TRUE, pos |-> NextPos])
                     /\ stderr' = stderr
                     /\ line_num' = line_num + 1 /\ scene' = scene
                     /\ ret' = ret /\ pc' = "ok"
                ELSE \E o \in process_line(scene, line, line_num + 1) :
                     /\ hist' = Append(hist, [line |-> line, kind |-> "line", ok |-> o.ok, pos |-> NextPos])
                     /\ stderr' = stderr \o o.err
                     /\ line_num' = line_num + 1 /\ scene' = o.scene
                     /\ ret' = (IF o.ok THEN ret ELSE ERROR)
                     /\ pc' = IF Overrun(o.scene) THEN "undefined" ELSE AfterLine(o.ok)
    /\ UNCHANGED <<subcommand, stdout, arg, res>>

\* main after read_scene returned true: the query of the subcommand
Query ==
    /\ pc = "ok"
    /\ \E text \in (IF subcommand = "bounding-box" THEN print_bounding_box(scene)
                    ELSE IF subcommand = "describe" THEN {print_description(scene)}
                    ELSE {print_summary(scene)}) :
         stdout' = stdout \o text
    /\ ret' = SUCCESS
    /\ pc' = "exit"
    /\ UNCHANGED <<subcommand, scene, line_num, stdin_rest, hist, stderr, arg, res>>

Next == Main \/ ReadBegin \/ ReadLoop \/ Query

Spec == Init /\ [][Next]_vars

---------------------------------------------------------------------------
(* The lexical validators on their own: each is applied to a string drawn  *)
(* from the strings of at most MaxTokLen characters of LexAlphabet.        *)

LexAlphabet == {"a", "Z", "_", "0", "7", "-", "+"}

RECURSIVE StringsUpTo(_)
StringsUpTo(n) ==
    IF n = 0 THEN {""}
    ELSE LET shorter == StringsUpTo(n - 1)
         IN  shorter \cup {s \o c : s \in shorter, c \in LexAlphabet}

\* Tokens as long as "%10s" lets through
LongTokens == {"2147483647", "4294967296", "-999999999", "abcdefghi_", "0123456789"}

InitLex ==
    /\ pc = "lex"
    /\ arg \in StringsUpTo(MaxTokLen) \cup LongTokens
    /\ res = NoResult
    /\ subcommand = "" /\ scene = init_scene /\ line_num = 0 /\ stdin_rest = ""
    /\ hist = <<>> /\ stderr = <<>> /\ stdout = <<>> /\ ret = -1

ApplyValidId ==
    /\ pc = "lex"
    /\ res.fn = ""
    /\ res' = [fn |-> "is_valid_id", val |-> is_valid_id(arg), rev |-> FALSE]
    /\ UNCHANGED <<pc, subcommand, scene, line_num, stdin_rest, hist, stderr,
                   stdout, ret, arg>>

ApplyValidInteger ==
    /\ pc = "lex"
    /\ res.fn = ""
    /\ res' = [fn |-> "is_valid_integer", val |-> is_valid_integer(arg), rev |-> FALSE]
    /\ UNCHANGED <<pc, subcommand, scene, line_num, stdin_rest, hist, stderr,
                   stdout, ret, arg>>

ApplyValidPositiveInteger ==
    /\ pc = "lex"
    /\ res.fn = ""
    /\ res' = [fn |-> "is_valid_positive_integer",
               val |-> is_valid_positive_integer(arg), rev |-> FALSE]
    /\ UNCHANGED <<pc, subcommand, scene, line_num, stdin_rest, hist, stderr,
                   stdout, ret, arg>>

NextLex == ApplyValidId \/ ApplyValidInteger \/ ApplyValidPositiveInteger

SpecLex == InitLex /\ [][NextLex]_vars

---------------------------------------------------------------------------
(* buildings_overlap on its own: applied both ways round to a pair of      *)
(* buildings, with small coordinates and with coordinates next to INT_MAX. *)

Coordinates == (0 - MaxCoord)..MaxCoord \cup {INT_MAX}

Rectangles ==
    {[id |-> "r", x |-> x, y |-> y, w |-> w, h |-> h] :
        x \in Coordinates, y \in Coordinates, w \in 1..MaxHalf, h \in 1..MaxHalf}

InitOverlap ==
    /\ pc = "overlap"
    /\ arg \in Rectangles \X Rectangles
    /\ res = NoResult
    /\ subcommand = "" /\ scene = init_scene /\ line_num = 0 /\ stdin_rest = ""
    /\ hist = <<>> /\ stderr = <<>> /\ stdout = <<>> /\ ret = -1

ApplyOverlap ==
    /\ pc = "overlap"
    /\ res.fn = ""
    /\ \E wide \in BOOLEAN :
         res' = [fn |-> "buildings_overlap",
                 val |-> buildings_overlap(arg[1], arg[2], wide),
                 rev |-> buildings_overlap(arg[2], arg[1], wide)]
    /\ UNCHANGED <<pc, subcommand, scene, line_num, stdin_rest, hist, stderr,
                   stdout, ret, arg>>

NextOverlap == ApplyOverlap

SpecOverlap == InitOverlap /\ [][NextOverlap]_vars

---------------------------------------------------------------------------
(* The queries on their own: main after a read_scene that returned true,   *)
(* for the stream `begin scene`, one line per building and per antenna of  *)
(* a scene drawn from QueryScenes, `end scene`.                            *)

MaxItems == 3      \* buildings, and antennas, of the scenes queried

QueryIds == <<"zeta", "alpha", "al", "Zed">>

\* Buildings that do not overlap and antennas at distinct positions
QueryBuildings ==
    {[id |-> QueryIds[k], x |-> 10 * k, y |-> 0 - k, w |-> k, h |-> 1] :
        k \in 1..Len(QueryIds)}

QueryAntennas ==
    {[id |-> QueryIds[k], x |-> 7 - k, y |-> 20 * k, r |-> 5 - k] :
        k \in 1..Len(QueryIds)}

\* The sequences of at most n distinct elements of pool
RECURSIVE DistinctSeqs(_, _)
DistinctSeqs(pool, n) ==
    IF n = 0 THEN {<<>>}
    ELSE LET shorter == DistinctSeqs(pool, n - 1)
         IN  shorter \cup
             UNION {{Append(q, e) : e \in {e \in pool : \A i \in 1..Len(q) : q[i] # e}} :
                       q \in shorter}

QueryScenes ==
    {[buildings |-> bs, antennas |-> as] :
        bs \in DistinctSeqs(QueryBuildings, MaxItems),
        as \in DistinctSeqs(QueryAntennas, MaxItems)}

BuildingLineOf(b) ==
    "building " \o b.id \o " " \o FormatInt(b.x) \o " " \o FormatInt(b.y)
    \o " " \o FormatInt(b.w) \o " " \o FormatInt(b.h)

AntennaLineOf(a) ==
    "antenna " \o a.id \o " " \o FormatInt(a.x) \o " " \o FormatInt(a.y)
    \o " " \o FormatInt(a.r)

\* What read_scene read to build sc
HistoryOf(sc) ==
    LET texts == <<"begin scene">>
                 \o [i \in 1..Len(sc.buildings) |-> BuildingLineOf(sc.buildings[i])]
                 \o [i \in 1..Len(sc.antennas) |-> AntennaLineOf(sc.antennas[i])]
                 \o <<"end scene">>
    IN  [i \in 1..Len(texts) |->
            [line |-> texts[i],
             kind |-> IF i = 1 THEN "first" ELSE IF i = Len(texts) THEN "end" ELSE "line",
             ok |-> TRUE, pos |-> i]]

InitQuery ==
    /\ pc = "ok"
    /\ subcommand \in VALID_SUBCOMMANDS \ {"help"}
    /\ scene \in QueryScenes
    /\ hist = HistoryOf(scene)
    /\ line_num = Len(hist)
    /\ stdin_rest = "" /\ stderr = <<>> /\ stdout = <<>> /\ ret = -1
    /\ arg = "" /\ res = NoResult

NextQuery == Query

SpecQuery == InitQuery /\ [][NextQuery]_vars

---------------------------------------------------------------------------
(* read_scene near the capacity of the arrays: its loop after the start    *)
(* marker and the lines of a scene with almost MAX_BUILDINGS buildings and *)
(* MAX_ANTENNAS antennas, with at most two more lines and the end marker   *)
(* still to read, for the subcommand summarize.                            *)

MaxRoom == 2       \* how far below the capacities the scenes start

CapacityBuildings(n) ==
    [k \in 1..n |-> [id |-> "b" \o FormatInt(k), x |-> 3 * k, y |-> 0, w |-> 1, h |-> 1]]

CapacityAntennas(n) ==
    [k \in 1..n |-> [id |-> "a" \o FormatInt(k), x |-> k, y |-> 0, r |-> 1]]

CapacityScenes ==
    {[buildings |-> CapacityBuildings(n), antennas |-> CapacityAntennas(m)] :
        n \in (MAX_BUILDINGS - MaxRoom)..MAX_BUILDINGS,
        m \in (MAX_ANTENNAS - MaxRoom)..MAX_ANTENNAS}

CapacityLines ==
    {"", "building x 0 9 1 1\n", "building y 0 19 1 1\n", "building b1 0 9 1 1\n",
     "antenna x 0 9 1\n"}

\* The rest of the stream
CapacityInput ==
    {l1 \o l2 \o "end scene\n" : l1 \in CapacityLines, l2 \in CapacityLines}

InitCapacity ==
    /\ pc = "loop"
    /\ subcommand = "summarize"
    /\ scene \in CapacityScenes
    /\ hist = SubSeq(HistoryOf(scene), 1, Len(HistoryOf(scene)) - 1)
    /\ line_num = Len(hist)
    /\ stdin_rest \in CapacityInput
    /\ stderr = <<>> /\ stdout = <<>> /\ ret = -1
    /\ arg = "" /\ res = NoResult

NextCapacity == ReadLoop \/ Query

SpecCapacity == InitCapacity /\ [][NextCapacity]_vars

---------------------------------------------------------------------------
(* Vocabulary of the claims *)

\* read_scene returned true
ReadSucceeded == pc = "ok" \/ (pc = "exit" /\ ret = SUCCESS /\ hist # <<>>)

\* The rectangles [x-w, x+w] x [y-h, y+h] of A and B, as sets of points of
\* the plane, do not overlap
Separated(A, B) ==
    \/ ExactLeq(ExactAdd(A.x, A.w), ExactSub(B.x, B.w))
    \/ ExactLeq(ExactAdd(B.x, B.w), ExactSub(A.x, A.w))
    \/ ExactLeq(ExactAdd(A.y, A.h), ExactSub(B.y, B.h))
    \/ ExactLeq(ExactAdd(B.y, B.h), ExactSub(A.y, A.h))

\* The open rectangles of A and B have a point in common
InteriorsIntersect(A, B) ==
    /\ ExactLt(ExactSub(A.x, A.w), ExactAdd(B.x, B.w))
    /\ ExactLt(ExactSub(B.x, B.w), ExactAdd(A.x, A.w))
    /\ ExactLt(ExactSub(A.y, A.h), ExactAdd(B.y, B.h))
    /\ ExactLt(ExactSub(B.y, B.h), ExactAdd(A.y, A.h))

\* The extents x-w, x+w, y-h, y+h of b all fit an int
ExtentsFit(b) ==
    /\ ~AddOverflows(b.x, b.w) /\ ~SubOverflows(b.x, b.w)
    /\ ~AddOverflows(b.y, b.h) /\ ~SubOverflows(b.y, b.h)

\* The tokens of a line: the maximal runs of characters other than space and tab
RECURSIVE BlankTokens(_, _, _)
BlankTokens(s, i, cur) ==
    IF i > Len(s) THEN (IF cur = "" THEN <<>> ELSE <<cur>>)
    ELSE IF is_blank(Ch(s, i))
    THEN (IF cur = "" THEN <<>> ELSE <<cur>>) \o BlankTokens(s, i + 1, "")
    ELSE BlankTokens(s, i + 1, cur \o Ch(s, i))

AllDigits(s, from) == \A i \in from..Len(s) : Ch(s, i) \in Digit

\* "0", or an optional "-", a digit 1-9 and then digits
IsCanonicalInteger(s) ==
    \/ s = "0"
    \/ /\ Len(s) >= 1 /\ Ch(s, 1) \in Digit \ {"0"} /\ AllDigits(s, 2)
    \/ /\ Len(s) >= 2 /\ Ch(s, 1) = "-"
       /\ Ch(s, 2) \in Digit \ {"0"} /\ AllDigits(s, 3)

\* A digit 1-9 and then digits
IsPositiveDecimal(s) ==
    Len(s) >= 1 /\ Ch(s, 1) \in Digit \ {"0"} /\ AllDigits(s, 2)

\* A letter or underscore and then letters, digits and underscores
IsIdentifier(s) ==
    /\ Len(s) >= 1
    /\ Ch(s, 1) \in Upper \cup Lower \cup {"_"}
    /\ \A i \in 2..Len(s) : Ch(s, i) \in Upper \cup Lower \cup Digit \cup {"_"}

---------------------------------------------------------------------------
(* The claims *)

\* C1: after any sequence of accepted building lines, no two stored
\* buildings overlap: every pair of distinct stored buildings is separated
\* along x or along y (touching edges allowed).
C1_StoredBuildingsDoNotOverlap ==
    \A i, j \in 1..Len(scene.buildings) :
        i < j => Separated(scene.buildings[i], scene.buildings[j])

\* What holds of the code instead of C1: stored buildings whose extents all
\* fit an int do not overlap.
StoredBuildingsDoNotOverlapUnlessOverflow ==
    \A i, j \in 1..Len(scene.buildings) :
        (i < j /\ ExtentsFit(scene.buildings[i]) /\ ExtentsFit(scene.buildings[j]))
            => Separated(scene.buildings[i], scene.buildings[j])

\* C2: in every scene read_scene returns successfully, no two stored
\* buildings have the same id and no two stored antennas have the same id.
C2_IdsUniqueWithinKind ==
    ReadSucceeded =>
        /\ \A i, j \in 1..Len(scene.buildings) :
               i # j => scene.buildings[i].id # scene.buildings[j].id
        /\ \A i, j \in 1..Len(scene.antennas) :
               i # j => scene.antennas[i].id # scene.antennas[j].id

\* A successful read that stored two buildings, the second line of which
\* had to pass the duplicate check against the first
C2_Witness ==
    /\ ReadSucceeded
    /\ Len(scene.buildings) = 2
    /\ \A i \in 1..Len(hist) : hist[i].ok

\* C3: in every scene read_scene returns successfully, no two stored
\* antennas have the same (x, y).
C3_AntennaPositionsDistinct ==
    ReadSucceeded =>
        \A i, j \in 1..Len(scene.antennas) :
            i # j => ~(scene.antennas[i].x = scene.antennas[j].x
                       /\ scene.antennas[i].y = scene.antennas[j].y)

\* A successful read that stored two antennas with the same x
C3_Witness ==
    /\ ReadSucceeded
    /\ Len(scene.antennas) = 2
    /\ scene.antennas[1].x = scene.antennas[2].x

\* C4: a query writes its output only after read_scene succeeded: the start
\* marker, then lines that were all accepted, then the end marker, and no
\* diagnostic; once a line has failed there is never any query output.
C4_QueryOnlyAfterSuccessfulRead ==
    /\ (stdout # <<>> /\ subcommand # "help") =>
          /\ Len(hist) >= 2
          /\ hist[1].kind = "first" /\ hist[1].line = "begin scene"
          /\ hist[Len(hist)].kind = "end" /\ hist[Len(hist)].line = "end scene"
          /\ \A i \in 1..Len(hist) : hist[i].ok
          /\ \A i \in 2..(Len(hist) - 1) : hist[i].kind = "line"
          /\ stderr = <<>>
          /\ ret = SUCCESS
    /\ (\E i \in 1..Len(hist) : ~hist[i].ok) => (stdout = <<>> /\ pc = "exit")

\* The describe query has written a scene read from two accepted lines
C4_Witness ==
    /\ subcommand = "describe"
    /\ Len(stdout) = 3
    /\ Len(hist) = 4

\* C5: a line whose first token is `building` and that has not exactly 5
\* tokens after it (fewer or more), or whose first token is `antenna` and
\* that has not exactly 4, is rejected with the wrong-number-of-arguments
\* diagnostic carrying its line number.
C5_WrongTokenCountRejected ==
    \A i \in 1..Len(hist) :
        LET t == BlankTokens(hist[i].line, 1, "")
        IN  /\ (hist[i].kind = "line" /\ Len(t) >= 1 /\ t[1] = "building" /\ Len(t) # 6)
                => /\ ~hist[i].ok
                   /\ stderr = <<LineError("building line has wrong number of arguments", i)>>
            /\ (hist[i].kind = "line" /\ Len(t) >= 1 /\ t[1] = "antenna" /\ Len(t) # 5)
                => /\ ~hist[i].ok
                   /\ stderr = <<LineError("antenna line has wrong number of arguments", i)>>

\* C6: is_valid_integer accepts exactly "0" and the strings made of an
\* optional "-", a digit 1-9 and digits; it rejects "", "-", "00", "01",
\* "007", "-0" and every string with a character that is not a digit.
C6_ValidIntegerExact ==
    res.fn = "is_valid_integer" => (res.val <=> IsCanonicalInteger(arg))

\* What holds of the code instead of C6: is_valid_integer accepts exactly the
\* canonical integers and the strings "-0..." of a "-", a "0" and digits.
ValidIntegerExactButForMinusZero ==
    res.fn = "is_valid_integer" =>
        (res.val <=> (IsCanonicalInteger(arg)
                      \/ (Len(arg) >= 2 /\ Ch(arg, 1) = "-" /\ AllDigits(arg, 2))))

\* C7: is_valid_positive_integer accepts exactly the strings made of a digit
\* 1-9 and digits, so that every w, h and r stored from an accepted line is
\* at least 1.
C7_PositiveExactAndStoredAtLeastOne ==
    /\ \A i \in 1..Len(hist) :
           LET t == BlankTokens(hist[i].line, 1, "")
           IN  \A k \in 1..Len(t) :
                   is_valid_positive_integer(t[k]) <=> IsPositiveDecimal(t[k])
    /\ \A i \in 1..Len(scene.buildings) :
           scene.buildings[i].w >= 1 /\ scene.buildings[i].h >= 1
    /\ \A i \in 1..Len(scene.antennas) : scene.antennas[i].r >= 1

\* What holds of the code of C7: the language of is_valid_positive_integer
PositiveLanguageExact ==
    res.fn = "is_valid_positive_integer" => (res.val <=> IsPositiveDecimal(arg))

\* C8: is_valid_id accepts exactly the non-empty strings that begin with an
\* ASCII letter or underscore and go on with ASCII letters, digits and
\* underscores.
C8_ValidIdExact ==
    res.fn = "is_valid_id" => (res.val <=> IsIdentifier(arg))

\* is_valid_id has accepted an identifier with an underscore, a digit and a letter
C8_Witness ==
    res.fn = "is_valid_id" /\ res.val /\ arg = "_7Z"

\* C9: buildings_overlap gives the same answer for (A, B) and (B, A), and
\* answers true exactly when the interiors of the two rectangles intersect
\* (so false for rectangles that share only an edge or a corner).
C9_OverlapSymmetricAndExact ==
    res.fn = "buildings_overlap" =>
        /\ res.val = res.rev
        /\ res.val <=> InteriorsIntersect(arg[1], arg[2])

\* What holds of the code instead of C9: symmetry always, and exactness for
\* rectangles whose extents fit an int.
OverlapSymmetricAndExactUnlessOverflow ==
    res.fn = "buildings_overlap" =>
        /\ res.val = res.rev
        /\ (ExtentsFit(arg[1]) /\ ExtentsFit(arg[2]))
              => (res.val <=> InteriorsIntersect(arg[1], arg[2]))

\* C10: when the first line is not exactly `begin scene` (no line at all, or
\* a line with blanks around the marker, or any other line), read_scene
\* fails at once: no further line is read and the scene stays empty.
C10_MissingStartMarkerFails ==
    (Len(hist) >= 1 /\ ~(hist[1].kind = "first" /\ hist[1].line = "begin scene")) =>
        /\ pc = "exit" /\ ret = ERROR
        /\ Len(hist) = 1 /\ ~hist[1].ok
        /\ scene = init_scene /\ line_num = 0
        /\ stdout = <<>>

\* read_scene has refused a first line that is the marker and a blank
C10_Witness ==
    /\ pc = "exit"
    /\ Len(hist) = 1
    /\ hist[1].line = "begin scene "
    /\ stderr = <<LineError("first line must be exactly 'begin scene'", 0)>>

C12_NothingFollowsEndMarker ==
    ReadSucceeded =>
        /\ hist[Len(hist)].line = "end scene"
        /\ stdin_rest = ""

\* C13: a line that fails ends the read phase: read_scene returns false at
\* once, one diagnostic has been written, and that line is the last thing
\* read from the stream.
C13_ReadStopsAtFirstFailure ==
    \A i \in 1..Len(hist) :
        (hist[i].kind = "line" /\ ~hist[i].ok) =>
            /\ i = Len(hist)
            /\ pc = "exit" /\ ret = ERROR
            /\ Len(stderr) = 1
            /\ stdout = <<>>
            /\ \A j \in 1..(i - 1) : hist[j].ok

\* The second interior line failed in the scene checks after an accepted one
C13_Witness ==
    /\ pc = "exit"
    /\ Len(hist) = 3
    /\ hist[2].ok /\ ~hist[3].ok /\ hist[3].kind = "line"
    /\ stderr[1].id1 # ""

\* C14: the line number of a diagnostic that carries one is the 1-based
\* position in the stream of the line that failed, `begin scene` being line 1.
C14_LineNumberIsStreamPosition ==
    \A k \in 1..Len(stderr) :
        stderr[k].line # 0 =>
            /\ hist # <<>>
            /\ hist[Len(hist)].kind = "line" /\ ~hist[Len(hist)].ok
            /\ stderr[k].line = hist[Len(hist)].pos

\* What holds of the code instead of C14: the number is the position of the
\* line as long as no line of 50 characters has been read before it.
LineNumberIsPositionAfterShorterLines ==
    (\A i \in 1..Len(hist) : Len(hist[i].line) < MAX_LINE_LENGTH - 1) =>
        \A k \in 1..Len(stderr) :
            stderr[k].line # 0 =>
                /\ hist # <<>>
                /\ hist[Len(hist)].kind = "line" /\ ~hist[Len(hist)].ok
                /\ stderr[k].line = hist[Len(hist)].pos

\* The diagnostic the validation order of C15 gives for the tokens t of a
\* line whose keyword is t[1], as <<diagnostic>>, or <<>> when every check
\* passes; the syntax of a token is what the validators decide.
ExpectedParseError(t, n) ==
    IF t[1] = "building"
    THEN IF Len(t) # 6
         THEN <<LineError("building line has wrong number of arguments", n)>>
         ELSE IF ~is_valid_id(t[2]) THEN <<TokenError("invalid identifier", t[2], n)>>
         ELSE IF ~is_valid_integer(t[3]) THEN <<TokenError("invalid integer", t[3], n)>>
         ELSE IF ~is_valid_integer(t[4]) THEN <<TokenError("invalid integer", t[4], n)>>
         ELSE IF ~is_valid_positive_integer(t[5])
         THEN <<TokenError("invalid positive integer", t[5], n)>>
         ELSE IF ~is_valid_positive_integer(t[6])
         THEN <<TokenError("invalid positive integer", t[6], n)>>
         ELSE <<>>
    ELSE IF Len(t) # 5
         THEN <<LineError("antenna line has wrong number of arguments", n)>>
         ELSE IF ~is_valid_id(t[2]) THEN <<TokenError("invalid identifier", t[2], n)>>
         ELSE IF ~is_valid_integer(t[3]) THEN <<TokenError("invalid integer", t[3], n)>>
         ELSE IF ~is_valid_integer(t[4]) THEN <<TokenError("invalid integer", t[4], n)>>
         ELSE IF ~is_valid_positive_integer(t[5])
         THEN <<TokenError("invalid positive integer", t[5], n)>>
         ELSE <<>>

\* The line-level diagnostics among those written
ParseErrors == SelectSeq(stderr, LAMBDA e : e.line # 0)

\* C15: a line with the keyword `building` or `antenna` gets the diagnostic
\* of the first check that fails in the order token count, identifier, x, y,
\* w, h (or r), quoting the token of the line at that place, and no
\* diagnostic of the parser when none fails.
C15_FirstFailureInFixedOrder ==
    \A i \in 1..Len(hist) :
        LET t == BlankTokens(hist[i].line, 1, "")
        IN  (hist[i].kind = "line" /\ Len(t) >= 1 /\ t[1] \in {"building", "antenna"})
                => IF ExpectedParseError(t, line_num) # <<>>
                   THEN ~hist[i].ok /\ stderr = ExpectedParseError(t, line_num)
                   ELSE i = Len(hist) => ParseErrors = <<>>

\* What holds of the code instead of C15: the order and the token quoted are
\* as claimed for lines with no more tokens than the keyword takes and no
\* token longer than 10 characters.
FirstFailureInFixedOrderForSizedLines ==
    \A i \in 1..Len(hist) :
        LET t == BlankTokens(hist[i].line, 1, "")
        IN  (/\ hist[i].kind = "line" /\ Len(t) >= 1
             /\ t[1] \in {"building", "antenna"}
             /\ Len(t) <= (IF t[1] = "building" THEN 6 ELSE 5)
             /\ \A k \in 1..Len(t) : Len(t[k]) <= SCAN_WIDTH)
                => IF ExpectedParseError(t, line_num) # <<>>
                   THEN ~hist[i].ok /\ stderr = ExpectedParseError(t, line_num)
                   ELSE i = Len(hist) => ParseErrors = <<>>

\* The step is read_scene handing a line with the keyword kw to process_line
ProcessesLine(kw) ==
    /\ Len(hist') = Len(hist) + 1
    /\ hist'[Len(hist')].kind = "line"
    /\ ScanStrings(hist'[Len(hist')].line, 1, 1) = <<kw>>

\* The index of the earliest-inserted stored building whose rectangle
\* overlaps that of b, 0 when there is none
EarliestOverlapping(b) ==
    LET hits == {i \in 1..Len(scene.buildings) :
                    InteriorsIntersect(scene.buildings[i], b)}
    IN  IF hits = {} THEN 0 ELSE CHOOSE i \in hits : \A j \in hits : i <= j

\* The outcome C16 gives for the building b
BuildingOutcome(b) ==
    IF \E i \in 1..Len(scene.buildings) : scene.buildings[i].id = b.id
    THEN /\ ~hist'[Len(hist')].ok
         /\ scene' = scene
         /\ stderr' = Append(stderr, SceneError("building identifier is non unique",
                                                b.id, ""))
    ELSE IF EarliestOverlapping(b) # 0
    THEN /\ ~hist'[Len(hist')].ok
         /\ scene' = scene
         /\ stderr' = Append(stderr,
                SceneError("buildings are overlapping",
                           scene.buildings[EarliestOverlapping(b)].id, b.id))
    ELSE /\ hist'[Len(hist')].ok
         /\ scene' = [scene EXCEPT !.buildings = Append(@, b)]
         /\ stderr' = stderr

\* C16: a building line that parses into b fails with DuplicateId(b.id) when
\* a stored building has the id of b, whether or not b overlaps one;
\* otherwise with Overlap naming the earliest-inserted stored building that
\* overlaps b, then b.id; otherwise b is appended after the stored buildings.
C16_BuildingOutcomeOrder ==
    [][ProcessesLine("building") =>
          LET p == parse_building_line(hist'[Len(hist')].line, line_num')
          IN  p.ok => \E b \in p.values : BuildingOutcome(b)]_vars

\* What holds of the code instead of C16: the same, as long as the extents
\* of b and of the stored buildings fit an int.
BuildingOutcomeOrderUnlessOverflow ==
    [][ProcessesLine("building") =>
          LET p == parse_building_line(hist'[Len(hist')].line, line_num')
          IN  p.ok => \E b \in p.values :
                        (ExtentsFit(b) /\ \A i \in 1..Len(scene.buildings) :
                                              ExtentsFit(scene.buildings[i]))
                            => BuildingOutcome(b)]_vars

\* The outcome C17 gives for the antenna a
AntennaOutcome(a) ==
    IF \E i \in 1..Len(scene.antennas) : scene.antennas[i].id = a.id
    THEN /\ ~hist'[Len(hist')].ok
         /\ scene' = scene
         /\ stderr' = Append(stderr, SceneError("antenna identifier is non unique",
                                                a.id, ""))
    ELSE LET same == {i \in 1..Len(scene.antennas) :
                         scene.antennas[i].x = a.x /\ scene.antennas[i].y = a.y}
         IN  /\ scene' = [scene EXCEPT !.antennas = Append(@, a)]
             /\ IF same # {}
                THEN /\ ~hist'[Len(hist')].ok
                     /\ stderr' = Append(stderr,
                            SceneError("antennas have the same position",
                                scene.antennas[CHOOSE i \in same :
                                                 \A j \in same : i <= j].id,
                                a.id))
                ELSE /\ hist'[Len(hist')].ok
                     /\ stderr' = stderr

\* C17: an antenna line that parses into a fails with DuplicateId(a.id) and
\* appends nothing when a stored antenna has the id of a; otherwise a is
\* appended, and the line fails with SamePosition exactly when a stored
\* antenna is at the (x, y) of a, naming the earliest such antenna, then a.id.
C17_AntennaOutcomeOrder ==
    [][ProcessesLine("antenna") =>
          LET p == parse_antenna_line(hist'[Len(hist')].line, line_num')
          IN  p.ok => \E a \in p.values : AntennaOutcome(a)]_vars

\* Antenna b was appended and refused for being where antenna a is
C17_Witness ==
    /\ pc = "exit"
    /\ Len(scene.antennas) = 2
    /\ scene.antennas[1].id = "a" /\ scene.antennas[2].id = "b"
    /\ stderr = <<SceneError("antennas have the same position", "a", "b")>>

\* The extents of the stored items along x and y, as exact values and as ints
XLows ==
    {ExactSub(scene.buildings[i].x, scene.buildings[i].w) : i \in 1..Len(scene.buildings)}
    \cup {ExactSub(scene.antennas[i].x, scene.antennas[i].r) : i \in 1..Len(scene.antennas)}

XHighs ==
    {ExactAdd(scene.buildings[i].x, scene.buildings[i].w) : i \in 1..Len(scene.buildings)}
    \cup {ExactAdd(scene.antennas[i].x, scene.antennas[i].r) : i \in 1..Len(scene.antennas)}

YLows ==
    {ExactSub(scene.buildings[i].y, scene.buildings[i].h) : i \in 1..Len(scene.buildings)}
    \cup {ExactSub(scene.antennas[i].y, scene.antennas[i].r) : i \in 1..Len(scene.antennas)}

YHighs ==
    {ExactAdd(scene.buildings[i].y, scene.buildings[i].h) : i \in 1..Len(scene.buildings)}
    \cup {ExactAdd(scene.antennas[i].y, scene.antennas[i].r) : i \in 1..Len(scene.antennas)}

\* The ints that denote a value of the set S of exact values
IntsOf(S) ==
    {4 * p[1] + p[2] :
        p \in {q \in S : q[1] >= INT_MIN \div 4 /\ q[1] <= INT_MAX \div 4}}

IsLeast(v, S) == ExactAdd(v, 0) \in S /\ \A p \in S : ExactLeq(ExactAdd(v, 0), p)

IsGreatest(v, S) == ExactAdd(v, 0) \in S /\ \A p \in S : ExactLeq(p, ExactAdd(v, 0))

BoxText(min_x, max_x, min_y, max_y) ==
    "bounding box [" \o FormatInt(min_x) \o ", " \o FormatInt(max_x)
    \o "] x [" \o FormatInt(min_y) \o ", " \o FormatInt(max_y) \o "]"

\* The output of the bounding-box query is the box of the extremes
ReportsExtremes ==
    IF scene.buildings = <<>> /\ scene.antennas = <<>>
    THEN stdout = <<"undefined (empty scene)">>
    ELSE \E min_x \in IntsOf(XLows), max_x \in IntsOf(XHighs),
            min_y \in IntsOf(YLows), max_y \in IntsOf(YHighs) :
            /\ stdout = <<BoxText(min_x, max_x, min_y, max_y)>>
            /\ IsLeast(min_x, XLows) /\ IsGreatest(max_x, XHighs)
            /\ IsLeast(min_y, YLows) /\ IsGreatest(max_y, YHighs)

\* C18: the bounding-box query prints, for a scene that is not empty, the
\* least x-w (x-r), the greatest x+w (x+r), the least y-h (y-r) and the
\* greatest y+h (y+r) over the stored buildings and antennas, and
\* `undefined (empty scene)` for the empty scene.
C18_BoundingBoxIsExtremes ==
    (subcommand = "bounding-box" /\ stdout # <<>>) => ReportsExtremes

\* What holds of the code instead of C18: the same, for scenes in which
\* every extent fits an int.
BoundingBoxIsExtremesUnlessOverflow ==
    (/\ subcommand = "bounding-box" /\ stdout # <<>>
     /\ \A i \in 1..Len(scene.buildings) : ExtentsFit(scene.buildings[i])
     /\ \A i \in 1..Len(scene.antennas) :
            ~AddOverflows(scene.antennas[i].x, scene.antennas[i].r)
            /\ ~SubOverflows(scene.antennas[i].x, scene.antennas[i].r)
            /\ ~AddOverflows(scene.antennas[i].y, scene.antennas[i].r)
            /\ ~SubOverflows(scene.antennas[i].y, scene.antennas[i].r))
        => ReportsExtremes

\* The number of lines with the keyword kw that read_scene accepted
AcceptedLines(kw) ==
    Cardinality({i \in 1..Len(hist) :
                    /\ hist[i].kind = "line" /\ hist[i].ok
                    /\ BlankTokens(hist[i].line, 1, "") # <<>>
                    /\ BlankTokens(hist[i].line, 1, "")[1] = kw})

\* The summary C19 gives for nb buildings and na antennas
ExpectedSummary(nb, na) ==
    IF nb = 0 /\ na = 0 THEN "An empty scene"
    ELSE "A scene with "
         \o (IF nb > 0 THEN FormatInt(nb) \o " building" ELSE "")
         \o (IF nb > 1 THEN "s" ELSE "")
         \o (IF nb > 0 /\ na > 0 THEN " and " ELSE "")
         \o (IF na > 0 THEN FormatInt(na) \o " antenna" ELSE "")
         \o (IF na > 1 THEN "s" ELSE "")

\* C19: the summary line is `An empty scene` for no building and no antenna,
\* and otherwise `A scene with `, the building clause when there are
\* buildings, ` and ` when there are both, the antenna clause when there are
\* antennas, each clause with `s` for a count above 1; the counts are the
\* numbers of accepted building and antenna lines.
C19_SummaryCountsAcceptedLines ==
    (subcommand \in {"summarize", "describe"} /\ stdout # <<>>) =>
        /\ stdout[1] = ExpectedSummary(AcceptedLines("building"), AcceptedLines("antenna"))
        /\ subcommand = "summarize" => Len(stdout) = 1

\* The summary of a scene read from one building line and one antenna line
C19_Witness ==
    /\ subcommand = "summarize"
    /\ Len(hist) = 4
    /\ stdout = <<"A scene with 1 building and 1 antenna">>

\* a comes before b in the byte-wise lexicographic order
ByteLess(a, b) ==
    \E k \in 1..Len(b) :
        /\ \A i \in 1..(k - 1) : i <= Len(a) /\ Ch(a, i) = Ch(b, i)
        /\ (k > Len(a) \/ (k - 1 < Len(a) /\ Ord(Ch(a, k)) < Ord(Ch(b, k))))

\* The lines from..(from + Len(items) - 1) of stdout are the lines of the
\* items, each once, in strictly ascending order of identifier
ListedAscending(items, from, LineOf(_)) ==
    \E p \in Permutations(1..Len(items)) :
        /\ \A i \in 1..Len(items) : stdout[from + i - 1] = LineOf(items[p[i]])
        /\ \A i \in 1..(Len(items) - 1) : ByteLess(items[p[i]].id, items[p[i + 1]].id)

\* C20: describe prints the summary, then one line per stored building,
\* then one line per stored antenna, each group in strictly ascending
\* byte-wise order of identifier whatever the order of insertion.
C20_DescribeSortedById ==
    (subcommand = "describe" /\ stdout # <<>>) =>
        /\ Len(stdout) = 1 + Len(scene.buildings) + Len(scene.antennas)
        /\ stdout[1] = ExpectedSummary(Len(scene.buildings), Len(scene.antennas))
        /\ ListedAscending(scene.buildings, 2, print_building)
        /\ ListedAscending(scene.antennas, 2 + Len(scene.buildings), print_antenna)

\* Buildings inserted as zeta, alpha, Zed are listed Zed, alpha, zeta
C20_Witness ==
    /\ subcommand = "describe"
    /\ Len(scene.buildings) = 3
    /\ scene.buildings[1].id = "zeta" /\ scene.buildings[2].id = "alpha"
    /\ scene.buildings[3].id = "Zed"
    /\ Len(stdout) >= 4
    /\ stdout[2] = print_building(scene.buildings[3])
    /\ stdout[3] = print_building(scene.buildings[2])
    /\ stdout[4] = print_building(scene.buildings[1])

\* The digits of s without leading zeros
RECURSIVE StripZeros(_)
StripZeros(s) ==
    IF Len(s) > 1 /\ Ch(s, 1) = "0" THEN StripZeros(SubSeq(s, 2, Len(s))) ELSE s

\* The decimal numeral of the integer the token tok denotes
DenotedDecimal(tok) ==
    IF Ch(tok, 1) = "-"
    THEN LET d == StripZeros(SubSeq(tok, 2, Len(tok)))
         IN  IF d = "0" THEN "0" ELSE "-" \o d
    ELSE StripZeros(tok)

\* The tokens t are those of a building (antenna) line that passes the
\* lexical validators
IsValidBuildingLine(t) ==
    /\ Len(t) = 6 /\ t[1] = "building"
    /\ is_valid_id(t[2]) /\ is_valid_integer(t[3]) /\ is_valid_integer(t[4])
    /\ is_valid_positive_integer(t[5]) /\ is_valid_positive_integer(t[6])

IsValidAntennaLine(t) ==
    /\ Len(t) = 5 /\ t[1] = "antenna"
    /\ is_valid_id(t[2]) /\ is_valid_integer(t[3]) /\ is_valid_integer(t[4])
    /\ is_valid_positive_integer(t[5])

\* The line of describe for the record the tokens t denote
RenderedRecord(t) ==
    IF t[1] = "building"
    THEN "  building " \o t[2] \o " at " \o DenotedDecimal(t[3]) \o " "
         \o DenotedDecimal(t[4]) \o " with dimensions " \o DenotedDecimal(t[5])
         \o " " \o DenotedDecimal(t[6])
    ELSE "  antenna " \o t[2] \o " at " \o DenotedDecimal(t[3]) \o " "
         \o DenotedDecimal(t[4]) \o " with range " \o DenotedDecimal(t[5])

\* The line hist[i] was not refused by the parser, the record stored for it
\* renders as its tokens t denote, and describe prints that line
RoundTrips(i, t) ==
    /\ hist[i].ok \/ (stderr # <<>> /\ stderr[1].line = 0)
    /\ hist[i].ok =>
          /\ \/ \E j \in 1..Len(scene.buildings) :
                   print_building(scene.buildings[j]) = RenderedRecord(t)
             \/ \E j \in 1..Len(scene.antennas) :
                   print_antenna(scene.antennas[j]) = RenderedRecord(t)
          /\ (subcommand = "describe" /\ stdout # <<>>) =>
                 \E k \in 1..Len(stdout) : stdout[k] = RenderedRecord(t)

\* C21: a building or antenna line whose tokens pass the lexical validators
\* is accepted by the parser, and describe prints its record with the same
\* identifier and with numbers equal to the integers the tokens denote,
\* whatever the length of the identifier and of the numbers.
C21_RoundTrip ==
    \A i \in 1..Len(hist) :
        LET t == BlankTokens(hist[i].line, 1, "")
        IN  (hist[i].kind = "line" /\ (IsValidBuildingLine(t) \/ IsValidAntennaLine(t)))
                => RoundTrips(i, t)

\* What holds of the code instead of C21: the round trip for tokens of at
\* most 10 characters whose numbers fit an int.
RoundTripWithinInt ==
    \A i \in 1..Len(hist) :
        LET t == BlankTokens(hist[i].line, 1, "")
        IN  (/\ hist[i].kind = "line"
             /\ IsValidBuildingLine(t) \/ IsValidAntennaLine(t)
             /\ \A k \in 1..Len(t) : Len(t[k]) <= SCAN_WIDTH
             /\ \A k \in 3..Len(t) : Cardinality(atoi(t[k])) = 1)
                => RoundTrips(i, t)

\* C22: identifiers of buildings and of antennas are separate: a line is
\* refused as a duplicate only when a stored item of its own kind has its
\* identifier, so a building and an antenna may have the same identifier.
C22_IdNamespacesIndependent ==
    \A k \in 1..Len(stderr) :
        /\ stderr[k].kind = "antenna identifier is non unique" =>
               \E j \in 1..Len(scene.antennas) : scene.antennas[j].id = stderr[k].id1
        /\ stderr[k].kind = "building identifier is non unique" =>
               \E j \in 1..Len(scene.buildings) : scene.buildings[j].id = stderr[k].id1

\* A scene read successfully that holds a building and an antenna both named a
C22_Witness ==
    /\ ReadSucceeded
    /\ Len(scene.buildings) = 1 /\ Len(scene.antennas) = 1
    /\ scene.buildings[1].id = "a" /\ scene.antennas[1].id = "a"

\* The tokens t with one space between them
RECURSIVE JoinTokens(_)
JoinTokens(t) ==
    IF t = <<>> THEN ""
    ELSE IF Len(t) = 1 THEN t[1]
    ELSE t[1] \o " " \o JoinTokens(Tail(t))

\* The line s with every character that is neither a blank nor a graphic
\* character (a form feed, a carriage return) replaced by the graphic "#"
RECURSIVE WithGraphicOnly(_)
WithGraphicOnly(s) ==
    IF s = "" THEN ""
    ELSE (IF isspace(Ch(s, 1)) /\ ~is_blank(Ch(s, 1)) THEN "#" ELSE Ch(s, 1))
         \o WithGraphicOnly(SubSeq(s, 2, Len(s)))

\* The step is read_scene handing a line to process_line
ProcessesSomeLine ==
    /\ Len(hist') = Len(hist) + 1
    /\ hist'[Len(hist')].kind = "line"

\* The step did to the scene and wrote what the outcome o of process_line says
StepIs(o) ==
    /\ o.ok = hist'[Len(hist')].ok
    /\ o.scene = scene'
    /\ stderr' = stderr \o o.err

\* The step accepted or refused the line as o does, with the same message
StepHasVerdict(o) ==
    /\ o.ok = hist'[Len(hist')].ok
    /\ Len(stderr') = Len(stderr) + Len(o.err)
    /\ \A k \in 1..Len(o.err) : stderr'[Len(stderr) + k].kind = o.err[k].kind

\* C23: only runs of spaces and tabs separate the tokens of a line.  The
\* outcome of a line is that of the line with its blanks reduced to single
\* spaces between tokens, and a line is accepted or refused (with the same
\* message) as the line is in which a form feed or carriage return is
\* replaced by a character that is certainly part of a token.
C23_OnlyBlanksSeparateTokens ==
    [][ProcessesSomeLine =>
          LET line == hist'[Len(hist')].line
          IN  /\ \E o \in process_line(scene, JoinTokens(BlankTokens(line, 1, "")),
                                       line_num') : StepIs(o)
              /\ \E o \in process_line(scene, WithGraphicOnly(line), line_num') :
                     StepHasVerdict(o)]_vars

\* What holds of the code instead of C23: blanks before, after and between
\* the tokens do not change the outcome of a line.
BlankRunsDoNotMatter ==
    [][ProcessesSomeLine =>
          \E o \in process_line(scene,
                                JoinTokens(BlankTokens(hist'[Len(hist')].line, 1, "")),
                                line_num') : StepIs(o)]_vars

\* C24: a line of at most 50 characters is read as one line: every fgets of
\* read_scene that finds input starts on a new line of the stream, so the
\* i-th read is the i-th line and the line counter is its position; after a
\* line of exactly 50 characters the next read is the next line.
C24_LineReadAsOneLine ==
    \A i \in 1..Len(hist) :
        hist[i].kind # "eof" =>
            /\ hist[i].pos = i
            /\ (i = Len(hist) /\ hist[1].ok) => line_num = hist[i].pos

\* What holds of the code instead of C24: the same for lines of fewer than
\* 50 characters.
ShorterLineReadAsOneLine ==
    (\A i \in 1..Len(hist) : Len(hist[i].line) < MAX_LINE_LENGTH - 1) =>
        \A i \in 1..Len(hist) :
            hist[i].kind # "eof" =>
                /\ hist[i].pos = i
                /\ (i = Len(hist) /\ hist[1].ok) => line_num = hist[i].pos

\* C25: the scene never holds more than MAX_BUILDINGS buildings or more
\* than MAX_ANTENNAS antennas, so every write of a new item is inside its
\* array.
C25_CountsWithinCapacity ==
    /\ Len(scene.buildings) <= MAX_BUILDINGS
    /\ Len(scene.antennas) <= MAX_ANTENNAS

\* The step is a call of process_line that returned false
LineFails == ProcessesSomeLine /\ ~hist'[Len(hist')].ok

\* C26: a call of process_line that fails, for whatever reason, leaves both
\* collections of the scene and their counts as they were.
C26_FailureLeavesSceneUnchanged ==
    [][LineFails => scene' = scene]_vars

\* C26 as amended: a failing call leaves the buildings as they were, and
\* the antennas too unless the failure is SamePosition: then the antenna
\* refused, the second one the diagnostic names, has been appended.
FailureLeavesSceneUnchangedButForSamePosition ==
    [][LineFails =>
          /\ scene'.buildings = scene.buildings
          /\ IF stderr'[Len(stderr')].kind = "antennas have the same position"
             THEN /\ Len(scene'.antennas) = Len(scene.antennas) + 1
                  /\ SubSeq(scene'.antennas, 1, Len(scene.antennas)) = scene.antennas
                  /\ scene'.antennas[Len(scene'.antennas)].id = stderr'[Len(stderr')].id2
             ELSE scene'.antennas = scene.antennas]_vars

\* Antenna a was refused for being where antenna b is, and is in the scene
C26_Witness ==
    /\ pc = "exit" /\ ret = ERROR
    /\ stderr = <<SceneError("antennas have the same position", "b", "a")>>
    /\ Len(scene.antennas) = 2
    /\ scene.antennas[2].id = "a"
    /\ ~hist[Len(hist)].ok

\* The bounding-box query printed a box with min_x < max_x and min_y < max_y
ReportsOrderedBox ==
    \E box \in compute_bounding_box(scene) :
        /\ stdout = <<BoxText(box.min_x, box.max_x, box.min_y, box.max_y)>>
        /\ box.min_x < box.max_x
        /\ box.min_y < box.max_y

\* C27: for every scene read successfully that is not empty, the box the
\* bounding-box query prints has min_x < max_x and min_y < max_y, whatever
\* accepted tokens (up to 10 characters, values at and beyond the limits of
\* a 32-bit int) the coordinates and dimensions come from.
C27_BoxIsOrdered ==
    (/\ subcommand = "bounding-box" /\ stdout # <<>>
     /\ (scene.buildings # <<>> \/ scene.antennas # <<>>))
        => ReportsOrderedBox

\* What holds of the code instead of C27: the same, for scenes whose
\* dimensions are at least 1 and whose extents all fit an int.
BoxIsOrderedUnlessOverflow ==
    (/\ subcommand = "bounding-box" /\ stdout # <<>>
     /\ (scene.buildings # <<>> \/ scene.antennas # <<>>)
     /\ \A i \in 1..Len(scene.buildings) :
            /\ ExtentsFit(scene.buildings[i])
            /\ scene.buildings[i].w >= 1 /\ scene.buildings[i].h >= 1
     /\ \A i \in 1..Len(scene.antennas) :
            /\ scene.antennas[i].r >= 1
            /\ ~AddOverflows(scene.antennas[i].x, scene.antennas[i].r)
            /\ ~SubOverflows(scene.antennas[i].x, scene.antennas[i].r)
            /\ ~AddOverflows(scene.antennas[i].y, scene.antennas[i].r)
            /\ ~SubOverflows(scene.antennas[i].y, scene.antennas[i].r))
        => ReportsOrderedBox

===========================================================================
